---- MODULE Spec2Model ----
(***************************************************************************)
(* MongoDB -> Meilisearch synchroniser (src/sync.js).                      *)
(*                                                                         *)
(* main() connects to both services and starts one syncCollection() run    *)
(* per configured collection.  A run probes/creates the index, applies the *)
(* settings, scans the collection page by page (skip/limit) and then       *)
(* attaches a change stream whose 'change' handler issues one index write  *)
(* per event and whose 'error' handler arms a timer that calls             *)
(* syncCollection() again.                                                 *)
(*                                                                         *)
(* Every await of the code is a separate step of the model; the code       *)
(* between two awaits is one atomic step (Node runs it without preemption).*)
(***************************************************************************)
EXTENDS Integers, Sequences, FiniteSets, TLC

\* ------------------------------------------------------------------ bounds
\* Number of distinct record identifiers the source store can hold.
NumIds == 3
\* Number of source mutations (insert/update/replace/delete) in one behaviour.
MaxMutations == 2
\* Number of 'error' events the change feeds emit in one behaviour.
MaxErrors == 1
\* Page size of the bulk scan (5000 in the code), scaled to the model.
batchSize == 2

VARIABLES
    proc,          \* position of main(): connect, health, running, closing, exit0, exit1
    config,        \* the SyncConfig handed to syncCollection (names its transform)
    source,        \* the source collection, in natural (scan) order
    indexExists,   \* the search engine has the index
    index,         \* the index: stored id (string) -> document
    runs,          \* one record per call of syncCollection, in call order
    timers,        \* pending setTimeout callbacks armed by 'error' handlers
    inflight,      \* index writes issued by 'change' handlers, not yet settled
    nmut,          \* mutations so far (arrival number of the latest change)
    nerr,          \* 'error' events so far
    lastDispatch,  \* history: the latest 'change' handler call and what it issued
    lastBulk,      \* history: the latest finished bulk pass (run, pages read, total logged)
    lastFail,      \* history: the latest handler write that threw (run, arrival number)
    peer           \* the pipeline of a second configured collection, data abstracted

vars == <<proc, config, source, indexExists, index, runs, timers, inflight,
          nmut, nerr, lastDispatch, lastBulk, lastFail, peer>>

Ids == 1..NumIds

\* ------------------------------------------------------------ pure helpers
Min(a, b) == IF a < b THEN a ELSE b

Digit == <<"0", "1", "2", "3", "4", "5", "6", "7", "8", "9">>

\* ObjectId.toString(): the string form of an identifier.
RECURSIVE ToStr(_)
ToStr(n) == IF n < 10 THEN Digit[n + 1] ELSE ToStr(n \div 10) \o Digit[(n % 10) + 1]

\* A source record: _id and an optional Price field ({} = field absent).
Rec(i, p) == [_id |-> i, Price |-> p]

\* doc.Price || 0
PriceOr0(p) == IF p = {} THEN 0 ELSE CHOOSE x \in p : TRUE

\* config.transform(doc): <<>> is a falsy result (skip), <<d>> a document.
\* "prices" is the transform of COLLECTIONS_TO_SYNC, which never declines;
\* "declining" is a configuration whose transform returns null for a record
\* without a Price.
transform(cfg, doc) ==
    IF cfg = "declining" /\ doc.Price = {}
    THEN <<>>
    ELSE <<[id |-> ToStr(doc._id), price |-> PriceOr0(doc.Price)]>>

\* collection.find({}).skip(skip).limit(limit).toArray()
Page(src, skip, limit) == SubSeq(src, skip + 1, Min(skip + limit, Len(src)))

\* Seeded fault: a declined record is submitted as a bare document instead of
\* being filtered out.
DocumentsKeepDeclined(cfg, docs) ==
    [k \in 1..Len(docs) |->
        IF transform(cfg, docs[k]) = <<>>
        THEN [id |-> ToStr(docs[k]._id), price |-> 0]
        ELSE transform(cfg, docs[k])[1]]

\* docs.map(config.transform).filter(Boolean)
Documents(cfg, docs) ==
    LET mapped == [k \in 1..Len(docs) |-> transform(cfg, docs[k])]
        kept   == SelectSeq(mapped, LAMBDA t : t # <<>>)
    IN  [k \in 1..Len(kept) |-> kept[k][1]]

\* Seeded fault: the index has no primary key and files every document it is
\* given under a key of its own.
PutAutoKey(idx, d) ==
    LET key == "auto" \o ToStr(Cardinality(DOMAIN idx) + 1)
    IN  [k \in DOMAIN idx \cup {key} |-> IF k = key THEN d ELSE idx[k]]

\* One document stored under its primary key, replacing what was there.
Put(idx, d) == [k \in DOMAIN idx \cup {d.id} |-> IF k = d.id THEN d ELSE idx[k]]

\* index.addDocuments(docs): add or replace, document by document.
RECURSIVE addDocuments(_, _)
addDocuments(idx, docs) ==
    IF docs = <<>> THEN idx ELSE addDocuments(Put(idx, Head(docs)), Tail(docs))

\* index.updateDocuments(docs): add, or merge the given fields into the stored one.
Merge(old, d) == [f \in DOMAIN old \cup DOMAIN d |-> IF f \in DOMAIN d THEN d[f] ELSE old[f]]

RECURSIVE updateDocuments(_, _)
updateDocuments(idx, docs) ==
    IF docs = <<>> THEN idx
    ELSE LET d == Head(docs)
             m == IF d.id \in DOMAIN idx THEN Merge(idx[d.id], d) ELSE d
         IN  updateDocuments(Put(idx, m), Tail(docs))

\* index.deleteDocument(id): absent id is a no-op.
deleteDocument(idx, id) == [k \in DOMAIN idx \ {id} |-> idx[k]]

\* The documents the index holds.
IndexDocs(idx) == {idx[k] : k \in DOMAIN idx}

\* The transformed, non-skipped projection of a collection.
Projection(cfg, src) ==
    {transform(cfg, src[k])[1] : k \in {j \in 1..Len(src) : transform(cfg, src[j]) # <<>>}}

\* Position of identifier i in the collection (0 if absent).
Pos(src, i) == IF \E k \in 1..Len(src) : src[k]._id = i
               THEN CHOOSE k \in 1..Len(src) : src[k]._id = i
               ELSE 0

Remove(src, k) == SubSeq(src, 1, k - 1) \o SubSeq(src, k + 1, Len(src))

\* fullDocument under 'updateLookup': the current record, absent if deleted.
Lookup(src, i) == IF Pos(src, i) = 0 THEN <<>> ELSE <<src[Pos(src, i)]>>

\* --------------------------------------------------------- 'change' handler
NoCall(docId) == [kind |-> "none", id |-> docId, docs |-> <<>>]

\* Seeded fault: an event without fullDocument removes the document.
UpsertDeletesAbsent(cfg, kind, docId, fullDocument) ==
    IF fullDocument = <<>> THEN [kind |-> "deleteDocument", id |-> docId, docs |-> <<>>]
    ELSE LET transformed == transform(cfg, fullDocument[1])
         IN  IF transformed = <<>> THEN NoCall(docId)
             ELSE [kind |-> kind, id |-> docId, docs |-> transformed]

\* An insert/replace/update branch: write the transformed fullDocument, if any.
Upsert(cfg, kind, docId, fullDocument) ==
    IF fullDocument = <<>> THEN NoCall(docId)
    ELSE LET transformed == transform(cfg, fullDocument[1])
         IN  IF transformed = <<>> THEN NoCall(docId)
             ELSE [kind |-> kind, id |-> docId, docs |-> transformed]

\* Seeded fault: the delete branch takes the id from the transformed fullDocument,
\* which a delete event does not carry.
onChangeDeleteByDocument(cfg, change) ==
    LET docId == ToStr(change.documentKey)
    IN  CASE change.operationType \in {"insert", "replace"} ->
                Upsert(cfg, "addDocuments", docId, change.fullDocument)
          [] change.operationType = "update" ->
                Upsert(cfg, "updateDocuments", docId, change.fullDocument)
          [] change.operationType = "delete" ->
                IF change.fullDocument = <<>> \/ transform(cfg, change.fullDocument[1]) = <<>>
                THEN NoCall(docId)
                ELSE [kind |-> "deleteDocument",
                      id |-> transform(cfg, change.fullDocument[1])[1].id, docs |-> <<>>]
          [] OTHER -> NoCall(docId)

\* Seeded fault: the delete branch passes the key object itself, whose string
\* form is not the document id the index stores.
onChangeDeleteRawKey(cfg, change) ==
    LET docId == ToStr(change.documentKey)
    IN  CASE change.operationType \in {"insert", "replace"} ->
                Upsert(cfg, "addDocuments", docId, change.fullDocument)
          [] change.operationType = "update" ->
                Upsert(cfg, "updateDocuments", docId, change.fullDocument)
          [] change.operationType = "delete" ->
                [kind |-> "deleteDocument", id |-> "ObjectId(" \o docId \o ")", docs |-> <<>>]
          [] OTHER -> NoCall(docId)

\* changeStream.on('change'): the handler up to its await, i.e. the index
\* call it issues for one change event (kind "none": it issues nothing).
onChange(cfg, change) ==
    LET docId == ToStr(change.documentKey)
    IN  CASE change.operationType \in {"insert", "replace"} ->
                Upsert(cfg, "addDocuments", docId, change.fullDocument)
          [] change.operationType = "update" ->
                Upsert(cfg, "updateDocuments", docId, change.fullDocument)
          [] change.operationType = "delete" ->
                [kind |-> "deleteDocument", id |-> docId, docs |-> <<>>]
          [] OTHER -> NoCall(docId)

\* The effect of a settled index call on the index.
Apply(idx, call) ==
    CASE call.kind = "addDocuments"    -> addDocuments(idx, call.docs)
      [] call.kind = "updateDocuments" -> updateDocuments(idx, call.docs)
      [] call.kind = "deleteDocument"  -> deleteDocument(idx, call.id)
      [] OTHER -> idx

\* ------------------------------------------------------------------- state
\* The inputs: the collection as it is when the process starts.
Seed == [k \in 1..NumIds |-> Rec(k, IF k % 2 = 0 THEN {} ELSE {10})]

\* The values a mutation writes into Price.
NewPrices == {{}, {20}}

\* A call of syncCollection, suspended at its first await (getRawInfo).
\* pages, stable and fresh are history of the scan: the length of every page
\* read so far, whether the source has been left unchanged since the scan
\* began, and whether the index was empty when the call began and has been
\* written by nobody else since.
NewRun(idx) ==
    [pc |-> "probe", skip |-> 0, total |-> 0, documents |-> <<>>,
     stream |-> "none", queue |-> <<>>,
     pages |-> <<>>, stable |-> TRUE, fresh |-> (DOMAIN idx = {})]

\* A call whose locals are dead: it rejected (pc "failed") or it returned
\* after attaching its change stream (pc "listening").
Returned(pc, stream) ==
    [pc |-> pc, skip |-> 0, total |-> 0, documents |-> <<>>,
     stream |-> stream, queue |-> <<>>,
     pages |-> <<>>, stable |-> TRUE, fresh |-> TRUE]

\* No bulk pass has finished yet.
NoBulk == [run |-> 0, pages |-> <<>>, total |-> 0, stable |-> TRUE, fresh |-> TRUE]

NoChange == [operationType |-> "none", documentKey |-> 0, fullDocument |-> <<>>, seq |-> 0]

\* No handler write has thrown yet.
NoFail == [run |-> 0, seq |-> 0]

\* No 'change' handler has run yet.
NoDispatch == [run |-> 0, change |-> NoChange, call |-> NoCall("0")]

\* The pipeline of a second entry of COLLECTIONS_TO_SYNC, abstracted to what
\* its calls of syncCollection keep: the position of its latest call, that
\* call's offset, total and pending batch size, its listener, its pending
\* restart timers, the 'error' events it saw, whether the latest call was
\* started by a timer, and how many documents its index holds.  The
\* repository configures one collection: there the second is absent.
NoPeer == [pc |-> "absent", skip |-> 0, total |-> 0, documents |-> 0, stream |-> "none",
           timers |-> 0, nerr |-> 0, restart |-> FALSE, stored |-> 0]

\* The second collection is configured and main() has not reached its loop.
IdlePeer == [NoPeer EXCEPT !.pc = "idle"]

\* main's loop calls syncCollection for the second configuration too.
StartPeer(p) == IF p.pc = "idle" THEN [p EXCEPT !.pc = "probe"] ELSE p

\* The process ends: the second pipeline's calls, listener and timers are
\* gone with it; its index stays as it is.
EndPeer(p) == IF p.pc = "absent" THEN p
              ELSE [NoPeer EXCEPT !.pc = "gone", !.stored = p.stored]

Init ==
    /\ proc = "connect"
    /\ config \in {"prices", "declining"}
    /\ \E n \in 0..NumIds : source = SubSeq(Seed, 1, n)
    /\ indexExists \in BOOLEAN
    /\ index = <<>>
    /\ runs = <<>>
    /\ timers = 0
    /\ inflight = {}
    /\ nmut = 0
    /\ nerr = 0
    /\ lastDispatch = NoDispatch
    /\ lastBulk = NoBulk
    /\ lastFail = NoFail
    /\ peer = NoPeer

\* The same start with a second collection configured.
PairInit ==
    /\ proc = "connect"
    /\ config \in {"prices", "declining"}
    /\ \E n \in 0..NumIds : source = SubSeq(Seed, 1, n)
    /\ indexExists \in BOOLEAN
    /\ index = <<>>
    /\ runs = <<>>
    /\ timers = 0
    /\ inflight = {}
    /\ nmut = 0
    /\ nerr = 0
    /\ lastDispatch = NoDispatch
    /\ lastBulk = NoBulk
    /\ lastFail = NoFail
    /\ peer = IdlePeer

\* The process is alive and its callbacks run.
Alive == proc \in {"running", "closing"}

Runs == DOMAIN runs

\* ------------------------------------------------------------------ main()
\* await mongoClient.connect()
Connect ==
    /\ proc = "connect"
    /\ proc' = "health"
    /\ UNCHANGED <<config, source, indexExists, index, runs, timers, inflight, nmut, nerr, lastDispatch, lastBulk, lastFail, peer>>

\* await client.health(), then one syncCollection call per configuration
\* and the SIGINT handler.
Health ==
    /\ proc = "health"
    /\ proc' = "running"
    /\ runs' = <<NewRun(index)>>
    /\ UNCHANGED <<config, source, indexExists, index, timers, inflight, nmut, nerr, lastDispatch, lastBulk, lastFail>>
    /\ peer' = StartPeer(peer)

\* Seeded fault: a startup failure is only logged and the pipelines start.
StartupFailContinues ==
    /\ proc \in {"connect", "health"}
    /\ proc' = "running"
    /\ runs' = <<NewRun(index)>>
    /\ UNCHANGED <<config, source, indexExists, index, timers, inflight, nmut, nerr, lastDispatch, lastBulk, lastFail, peer>>

\* connect() or health() throws: process.exit(1)
StartupFail ==
    /\ proc \in {"connect", "health"}
    /\ proc' = "exit1"
    /\ UNCHANGED <<config, source, indexExists, index, runs, timers, inflight, nmut, nerr, lastDispatch, lastBulk, lastFail, peer>>

\* SIGINT: the handler starts await mongoClient.close()
Sigint ==
    /\ proc = "running"
    /\ proc' = "closing"
    /\ UNCHANGED <<config, source, indexExists, index, runs, timers, inflight, nmut, nerr, lastDispatch, lastBulk, lastFail, peer>>

\* close() resolves: process.exit(0).  The process is gone, and with it its
\* calls of syncCollection, its timers and its handlers with their unsettled
\* index calls (nothing waits for them); the source store and the index
\* stay as they are.
Exit ==
    /\ proc = "closing"
    /\ proc' = "exit0"
    /\ runs' = <<>>
    /\ timers' = 0
    /\ inflight' = {}
    /\ lastDispatch' = NoDispatch
    /\ lastBulk' = NoBulk
    /\ lastFail' = NoFail
    /\ UNCHANGED <<config, source, indexExists, index, nmut, nerr>>
    /\ peer' = EndPeer(peer)

\* ------------------------------------------------------- syncCollection()
\* Frame of a step that only moves run r.
OnlyRun(r, rec) ==
    /\ runs' = [runs EXCEPT ![r] = rec]
    /\ UNCHANGED <<proc, config, source, timers, inflight, nmut, nerr, lastDispatch, lastFail, peer>>

\* Seeded fault: settings are applied only to an index that had to be created.
ProbeSkipsSettings(r) ==
    /\ Alive /\ runs[r].pc = "probe"
    /\ \E found \in {indexExists, FALSE} :
          OnlyRun(r, IF found THEN [runs[r] EXCEPT !.pc = "read", !.total = 0, !.skip = 0]
                              ELSE [runs[r] EXCEPT !.pc = "create"])
    /\ UNCHANGED <<indexExists, index, lastBulk>>

\* await index.getRawInfo() resolves or throws; a throw (index missing, or
\* any other failure) is caught and leads to createIndex.
Probe(r) ==
    /\ Alive /\ runs[r].pc = "probe"
    /\ \E found \in {indexExists, FALSE} :
          OnlyRun(r, [runs[r] EXCEPT !.pc = IF found THEN "settings" ELSE "create"])
    /\ UNCHANGED <<indexExists, index, lastBulk>>

\* await client.createIndex(indexName, {primaryKey: 'id'})
CreateIndex(r) ==
    /\ Alive /\ runs[r].pc = "create"
    /\ indexExists' = TRUE
    /\ OnlyRun(r, [runs[r] EXCEPT !.pc = "settings"])
    /\ UNCHANGED <<index, lastBulk>>

\* await index.updateSettings(config.settings); then total = 0, skip = 0 and
\* the first find() is issued.
UpdateSettings(r) ==
    /\ Alive /\ runs[r].pc = "settings"
    /\ OnlyRun(r, [runs[r] EXCEPT !.pc = "read", !.total = 0, !.skip = 0])
    /\ UNCHANGED <<indexExists, index, lastBulk>>

\* Seeded fault: a page shorter than batchSize ends the scan unprocessed.
AfterReadShortPage(cfg, run, docs) ==
    LET seen      == [run EXCEPT !.pages = Append(@, Len(docs))]
        documents == Documents(cfg, docs)
    IN  IF Len(docs) < batchSize
        THEN Returned("listening", "open")
        ELSE IF Len(documents) > 0
             THEN [seen EXCEPT !.pc = "write", !.documents = documents]
             ELSE [seen EXCEPT !.skip = @ + batchSize]

\* Seeded fault: a page whose records were all declined is still submitted.
AfterReadWritesEmpty(cfg, run, docs) ==
    LET seen      == [run EXCEPT !.pages = Append(@, Len(docs))]
        documents == Documents(cfg, docs)
    IN  IF Len(docs) = 0
        THEN Returned("listening", "open")
        ELSE [seen EXCEPT !.pc = "write", !.documents = documents]

\* The state of run r after find() returned docs: break and attach the
\* change stream on an empty page, else submit the page's documents (if any)
\* or move to the next page.
AfterRead(cfg, run, docs) ==
    LET seen      == [run EXCEPT !.pages = Append(@, Len(docs))]
        documents == Documents(cfg, docs)
    IN  IF Len(docs) = 0
        THEN Returned("listening", "open")
        ELSE IF Len(documents) > 0
             THEN [seen EXCEPT !.pc = "write", !.documents = documents]
             ELSE [seen EXCEPT !.skip = @ + batchSize]

\* await collection.find({}).skip(skip).limit(batchSize).toArray() resolves.
ReadPage(r) ==
    /\ Alive /\ runs[r].pc = "read"
    /\ LET docs == Page(source, runs[r].skip, batchSize)
           next == AfterRead(config, runs[r], docs)
       IN  /\ OnlyRun(r, next)
           /\ lastBulk' = IF next.pc = "listening"
                          THEN [run |-> r, pages |-> Append(runs[r].pages, Len(docs)),
                                total |-> runs[r].total,
                                stable |-> runs[r].stable, fresh |-> runs[r].fresh]
                          ELSE lastBulk
    /\ UNCHANGED <<indexExists, index>>

\* Seeded fault: the offset advances by the number of documents written.
AfterWriteSkipByCount(run) ==
    [run EXCEPT !.pc = "read", !.total = @ + Len(run.documents),
                !.skip = @ + Len(run.documents), !.documents = <<>>]

\* Seeded fault: the offset is left where it is after a batched write.
AfterWriteNoAdvance(run) ==
    [run EXCEPT !.pc = "read", !.total = @ + Len(run.documents), !.documents = <<>>]

\* The state of run r after its batched write resolved.
AfterWrite(run) ==
    [run EXCEPT !.pc = "read", !.total = @ + Len(run.documents),
                !.skip = @ + batchSize, !.documents = <<>>]

\* Every other run that has not finished its scan sees a foreign index write.
Disturb(rs, writer) ==
    [q \in DOMAIN rs |->
        IF q # writer /\ rs[q].pc \in {"probe", "create", "settings", "read", "write"}
        THEN [rs[q] EXCEPT !.fresh = FALSE] ELSE rs[q]]

\* await index.addDocuments(documents) resolves.
AddBatch(r) ==
    /\ Alive /\ runs[r].pc = "write"
    /\ index' = addDocuments(index, runs[r].documents)
    /\ runs' = Disturb([runs EXCEPT ![r] = AfterWrite(runs[r])], r)
    /\ UNCHANGED <<proc, config, source, indexExists, timers, inflight, nmut, nerr, lastDispatch, lastBulk, lastFail, peer>>

\* Seeded fault: a throw in setup or in the bulk loop arms the restart timer.
RunFailRetries(r) ==
    /\ Alive /\ runs[r].pc \in {"create", "settings", "read", "write"}
    /\ runs' = [runs EXCEPT ![r] = Returned("failed", "none")]
    /\ timers' = timers + 1
    /\ UNCHANGED <<proc, config, source, indexExists, index, inflight, nmut, nerr, lastDispatch, lastBulk, lastFail, peer>>

\* createIndex, updateSettings, find or addDocuments throws: the call of
\* syncCollection rejects (nothing in it catches).
RunFail(r) ==
    /\ Alive /\ runs[r].pc \in {"create", "settings", "read", "write"}
    /\ OnlyRun(r, Returned("failed", "none"))
    /\ UNCHANGED <<indexExists, index, lastBulk>>

\* The same throw in a call made by the restart timer: that call's promise
\* has no catch (main's has), and a runtime that treats an unhandled
\* rejection as fatal ends the process with code 1; one that only warns
\* leaves the call rejected as in RunFail.
Crash(r) ==
    /\ Alive /\ r > 1 /\ runs[r].pc \in {"create", "settings", "read", "write"}
    /\ proc' = "exit1"
    /\ runs' = <<>>
    /\ timers' = 0
    /\ inflight' = {}
    /\ lastDispatch' = NoDispatch
    /\ lastBulk' = NoBulk
    /\ lastFail' = NoFail
    /\ UNCHANGED <<config, source, indexExists, index, nmut, nerr>>
    /\ peer' = EndPeer(peer)

\* ----------------------------------------------------------- change stream
\* The 'change' event is emitted for the head of run r's feed: the handler
\* runs up to its await.  An update's fullDocument is looked up now.
Delivered(src, ev) ==
    IF ev.operationType = "update"
    THEN [ev EXCEPT !.fullDocument = Lookup(src, ev.documentKey)]
    ELSE ev

Dispatch(r) ==
    /\ Alive /\ runs[r].stream = "open" /\ runs[r].queue # <<>>
    /\ LET change == Delivered(source, Head(runs[r].queue))
           call   == onChange(config, change)
       IN  /\ runs' = [runs EXCEPT ![r].queue = Tail(@)]
           /\ inflight' = IF call.kind = "none" THEN inflight
                          ELSE inflight \cup {[run |-> r, seq |-> change.seq, call |-> call]}
           /\ lastDispatch' = [run |-> r, change |-> change, call |-> call]
    /\ UNCHANGED <<proc, config, source, indexExists, index, timers, nmut, nerr, lastBulk, lastFail, peer>>

\* The awaited index call of a handler resolves: the write is applied.
Complete(w) ==
    /\ Alive /\ w \in inflight
    /\ index' = Apply(index, w.call)
    /\ inflight' = inflight \ {w}
    /\ runs' = Disturb(runs, 0)
    /\ UNCHANGED <<proc, config, source, indexExists, timers, nmut, nerr, lastDispatch, lastBulk, lastFail, peer>>

\* Seeded fault: a failed write is treated like a stream error (restart armed).
FailWriteRestarts(w) ==
    /\ Alive /\ w \in inflight
    /\ inflight' = inflight \ {w}
    /\ timers' = timers + 1
    /\ lastFail' = [run |-> w.run, seq |-> w.seq]
    /\ UNCHANGED <<proc, config, source, indexExists, index, runs, nmut, nerr, lastDispatch, lastBulk, peer>>

\* The awaited index call throws: the catch logs it and the handler ends.
FailWrite(w) ==
    /\ Alive /\ w \in inflight
    /\ inflight' = inflight \ {w}
    /\ lastFail' = [run |-> w.run, seq |-> w.seq]
    /\ UNCHANGED <<proc, config, source, indexExists, index, runs, timers, nmut, nerr, lastDispatch, lastBulk, peer>>

\* changeStream.on('error'): setTimeout(() => syncCollection(...), 10000).
\* The handler closes nothing and removes no listener; whether the stream
\* itself is still open afterwards is the driver's business.
StreamError(r) ==
    /\ Alive /\ runs[r].stream = "open" /\ nerr < MaxErrors
    /\ nerr' = nerr + 1
    /\ timers' = timers + 1
    /\ \E after \in {"open", "closed"} :
          runs' = [runs EXCEPT ![r].stream = after,
                               ![r].queue = IF after = "closed" THEN <<>> ELSE @]
    /\ UNCHANGED <<proc, config, source, indexExists, index, inflight, nmut, lastDispatch, lastBulk, lastFail, peer>>

\* A timer armed by an 'error' handler fires: syncCollection is called again.
TimerFire ==
    /\ Alive /\ timers > 0
    /\ timers' = timers - 1
    /\ runs' = Append(runs, NewRun(index))
    /\ UNCHANGED <<proc, config, source, indexExists, index, inflight, nmut, nerr, lastDispatch, lastBulk, lastFail, peer>>

\* ------------------------------------------------------------ source store
\* A mutation reaches every open change stream and disturbs every scan.
Feed(rs, ev) ==
    [q \in DOMAIN rs |->
        [rs[q] EXCEPT !.queue  = IF rs[q].stream = "open" THEN Append(@, ev) ELSE @,
                      !.stable = IF rs[q].pc \in {"read", "write"} THEN FALSE ELSE @]]

Event(op, i, full) ==
    [operationType |-> op, documentKey |-> i, fullDocument |-> full, seq |-> nmut + 1]

Mutate(src, ev) ==
    /\ Alive /\ nmut < MaxMutations
    /\ nmut' = nmut + 1
    /\ source' = src
    /\ runs' = Feed(runs, ev)
    /\ UNCHANGED <<proc, config, indexExists, index, timers, inflight, nerr, lastDispatch, lastBulk, lastFail, peer>>

Insert(i, p) ==
    /\ Pos(source, i) = 0
    /\ Mutate(Append(source, Rec(i, p)), Event("insert", i, <<Rec(i, p)>>))

\* updateOne: the event carries no document of its own (looked up on delivery).
Update(i, p) ==
    /\ Pos(source, i) # 0
    /\ Mutate([source EXCEPT ![Pos(source, i)] = Rec(i, p)], Event("update", i, <<>>))

Replace(i, p) ==
    /\ Pos(source, i) # 0
    /\ Mutate([source EXCEPT ![Pos(source, i)] = Rec(i, p)], Event("replace", i, <<Rec(i, p)>>))

Delete(i) ==
    /\ Pos(source, i) # 0
    /\ Mutate(Remove(source, Pos(source, i)), Event("delete", i, <<>>))

\* ------------------------------------------- the second collection's pipeline
\* The state of main() and of the first collection's pipeline and services.
own == <<proc, config, source, indexExists, index, runs, timers, inflight,
         nmut, nerr, lastDispatch, lastBulk, lastFail>>

\* Its collection holds the records of Seed; its 'change' events are not
\* modelled.  getRawInfo resolves or throws.
PeerProbe ==
    /\ Alive /\ peer.pc = "probe"
    /\ \E found \in BOOLEAN :
          peer' = [peer EXCEPT !.pc = IF found THEN "settings" ELSE "create"]
    /\ UNCHANGED own

PeerCreateIndex ==
    /\ Alive /\ peer.pc = "create"
    /\ peer' = [peer EXCEPT !.pc = "settings"]
    /\ UNCHANGED own

PeerUpdateSettings ==
    /\ Alive /\ peer.pc = "settings"
    /\ peer' = [peer EXCEPT !.pc = "read", !.total = 0, !.skip = 0]
    /\ UNCHANGED own

PeerReadPage ==
    /\ Alive /\ peer.pc = "read"
    /\ LET n == Len(Page(Seed, peer.skip, batchSize))
       IN  peer' = IF n = 0
                   THEN [peer EXCEPT !.pc = "listening", !.stream = "open"]
                   ELSE [peer EXCEPT !.pc = "write", !.documents = n]
    /\ UNCHANGED own

PeerAddBatch ==
    /\ Alive /\ peer.pc = "write"
    /\ peer' = [peer EXCEPT !.pc = "read", !.total = @ + peer.documents,
                            !.stored = IF @ < peer.skip + peer.documents
                                       THEN peer.skip + peer.documents ELSE @,
                            !.skip = @ + batchSize, !.documents = 0]
    /\ UNCHANGED own

\* A throw in its setup or bulk loop: the call rejects.
PeerRunFail ==
    /\ Alive /\ peer.pc \in {"create", "settings", "read", "write"}
    /\ peer' = [peer EXCEPT !.pc = "failed", !.documents = 0]
    /\ UNCHANGED own

\* The same throw in a call its restart timer made, on a runtime that ends
\* the process on an unhandled rejection.
PeerCrash ==
    /\ Alive /\ peer.restart /\ peer.pc \in {"create", "settings", "read", "write"}
    /\ proc' = "exit1"
    /\ runs' = <<>>
    /\ timers' = 0
    /\ inflight' = {}
    /\ lastDispatch' = NoDispatch
    /\ lastBulk' = NoBulk
    /\ lastFail' = NoFail
    /\ peer' = EndPeer(peer)
    /\ UNCHANGED <<config, source, indexExists, index, nmut, nerr>>

\* Its change stream emits 'error': its handler arms its restart timer.
PeerStreamError ==
    /\ Alive /\ peer.stream = "open" /\ peer.nerr < MaxErrors
    /\ \E after \in {"open", "closed"} :
          peer' = [peer EXCEPT !.nerr = @ + 1, !.timers = @ + 1, !.stream = after]
    /\ UNCHANGED own

\* Its timer fires: syncCollection is called again with its configuration.
PeerTimerFire ==
    /\ Alive /\ peer.timers > 0
    /\ peer' = [peer EXCEPT !.timers = @ - 1, !.pc = "probe", !.restart = TRUE,
                            !.skip = 0, !.total = 0, !.documents = 0]
    /\ UNCHANGED own

\* ------------------------------------------------------------ specification
Next ==
    \/ Connect
    \/ Health
    \/ StartupFail
    \/ Sigint
    \/ Exit
    \/ \E r \in Runs : Probe(r)
    \/ \E r \in Runs : CreateIndex(r)
    \/ \E r \in Runs : UpdateSettings(r)
    \/ \E r \in Runs : ReadPage(r)
    \/ \E r \in Runs : AddBatch(r)
    \/ \E r \in Runs : RunFail(r)
    \/ \E r \in Runs : Crash(r)
    \/ \E r \in Runs : Dispatch(r)
    \/ \E w \in inflight : Complete(w)
    \/ \E w \in inflight : FailWrite(w)
    \/ \E r \in Runs : StreamError(r)
    \/ TimerFire
    \/ \E i \in Ids, p \in NewPrices : Insert(i, p)
    \/ \E i \in Ids, p \in NewPrices : Update(i, p)
    \/ \E i \in Ids, p \in NewPrices : Replace(i, p)
    \/ \E i \in Ids : Delete(i)

Spec == Init /\ [][Next]_vars

\* The pending await of call r of syncCollection settles (resolves or throws).
Settle(r) ==
    /\ r \in Runs
    /\ \/ Probe(r) \/ CreateIndex(r) \/ UpdateSettings(r)
       \/ ReadPage(r) \/ AddBatch(r) \/ RunFail(r) \/ Crash(r)

\* Node's event loop: an armed timer fires and a pending await settles.
\* The source store, the change feed and the operator owe nothing.
FairSpec ==
    /\ Spec
    /\ WF_vars(TimerFire)
    /\ \A r \in 1..(MaxErrors + 1) : WF_vars(Settle(r))

\* The program over a source that does not grow and whose change events are
\* left unhandled: the setting of a bulk pass.
ScanNext ==
    \/ Connect
    \/ Health
    \/ StartupFail
    \/ Sigint
    \/ Exit
    \/ \E r \in Runs : Probe(r)
    \/ \E r \in Runs : CreateIndex(r)
    \/ \E r \in Runs : UpdateSettings(r)
    \/ \E r \in Runs : ReadPage(r)
    \/ \E r \in Runs : AddBatch(r)
    \/ \E r \in Runs : RunFail(r)
    \/ \E r \in Runs : Crash(r)
    \/ \E r \in Runs : StreamError(r)
    \/ TimerFire
    \/ \E i \in Ids, p \in NewPrices : Update(i, p)
    \/ \E i \in Ids, p \in NewPrices : Replace(i, p)
    \/ \E i \in Ids : Delete(i)

ScanSpec ==
    /\ Init /\ [][ScanNext]_vars
    /\ WF_vars(TimerFire)
    /\ \A r \in 1..(MaxErrors + 1) : WF_vars(Settle(r))

\* The program with two collections configured, the first one's source left
\* alone: main, both pipelines, their stream errors and restarts.
PairNext ==
    \/ Connect
    \/ Health
    \/ StartupFail
    \/ Sigint
    \/ Exit
    \/ \E r \in Runs : Probe(r)
    \/ \E r \in Runs : CreateIndex(r)
    \/ \E r \in Runs : UpdateSettings(r)
    \/ \E r \in Runs : ReadPage(r)
    \/ \E r \in Runs : AddBatch(r)
    \/ \E r \in Runs : RunFail(r)
    \/ \E r \in Runs : Crash(r)
    \/ \E r \in Runs : StreamError(r)
    \/ TimerFire
    \/ PeerProbe
    \/ PeerCreateIndex
    \/ PeerUpdateSettings
    \/ PeerReadPage
    \/ PeerAddBatch
    \/ PeerRunFail
    \/ PeerCrash
    \/ PeerStreamError
    \/ PeerTimerFire

PairSpec == PairInit /\ [][PairNext]_vars

\* ------------------------------------------------------------------ claims
CeilDiv(n, b) == (n + b - 1) \div b

\* The streams whose handlers can still receive change events.
LiveListeners == {r \in Runs : runs[r].stream = "open"}

\* A bulk pass finishes in this step (its find() returned an empty page).
BulkFinishes == lastBulk' # lastBulk /\ lastBulk'.run > 0

\* C1: at most one change-capture listener is live at any time, also after
\* a stream error has scheduled a restart of the pipeline.
C1_OneLiveListener == Cardinality(LiveListeners) <= 1

\* C2: a handler's index write for a record id is applied only when no write
\* of the same listener for the same id that arrived earlier is outstanding,
\* i.e. writes for one id are applied in arrival order.
C2_SameIdInArrivalOrder ==
    [][\A w \in inflight :
          Complete(w) =>
              \A v \in inflight :
                  (v.run = w.run /\ v.call.id = w.call.id) => v.seq >= w.seq]_vars

\* C3: when the bulk pass of a restarted pipeline finishes (the source not
\* having changed during that scan and no handler write being outstanding),
\* the documents in the index are exactly the transformed, non-skipped
\* projection of the source; no document of a deleted record remains.
C3_RestartRepairs ==
    [][(BulkFinishes /\ lastBulk'.run > 1 /\ lastBulk'.stable /\ inflight = {}
          /\ \A r \in Runs : runs[r].queue = <<>>)
       => IndexDocs(index') = Projection(config, source')]_vars

\* The page lengths of a scan over n unchanging records with page size b:
\* full pages, the remainder if any, and the empty page that ends the scan.
ExpectedPages(n, b) ==
    [k \in 1..(CeilDiv(n, b) + 1) |->
        IF k * b <= n THEN b ELSE IF (k - 1) * b < n THEN n - (k - 1) * b ELSE 0]

\* C4: every listener error is eventually followed, unless the process is
\* shut down, by a restart of the whole pipeline whose bulk pass completes
\* and whose listener is then attached.
C4_EveryErrorRestarts ==
    \A k \in 1..MaxErrors :
        (nerr >= k) ~> (\/ proc \in {"closing", "exit0"}
                        \/ Len(runs) > k /\ runs[k + 1].pc = "listening")

\* C5: when a bulk pass over an unchanging source finishes, having started
\* on an empty index that nobody else wrote to, the index holds exactly the
\* transform outputs of the non-skipped records, one per record, and the
\* total that is logged is their number.
C5_BulkComplete ==
    [][(BulkFinishes /\ lastBulk'.stable /\ lastBulk'.fresh)
       => /\ IndexDocs(index') = Projection(config, source')
          /\ Cardinality(DOMAIN index') = Cardinality(Projection(config, source'))
          /\ lastBulk'.total = Cardinality(Projection(config, source'))]_vars

\* C5 witness: a three-record scan of two pages finished on a fresh index,
\* one record declined, two documents loaded.
C5_Witness ==
    /\ lastBulk.run > 0 /\ lastBulk.stable /\ lastBulk.fresh
    /\ lastBulk.pages = <<2, 1, 0>> /\ lastBulk.total = 2
    /\ Cardinality(DOMAIN index) = 2

\* C6 as claimed: a bulk pass over N unchanging records issues exactly
\* ceil(N / batchSize) page reads.
C6_CeilReads ==
    [][(BulkFinishes /\ lastBulk'.stable)
       => Len(lastBulk'.pages) = CeilDiv(Len(source'), batchSize)]_vars

\* C6 amended: a bulk pass over N unchanging records issues exactly
\* ceil(N / batchSize) + 1 page reads: the ceil(N / batchSize) non-empty
\* pages in order, then one read that returns no record and ends the scan.
C6_CeilPlusOneReads ==
    [][(BulkFinishes /\ lastBulk'.stable)
       => /\ Len(lastBulk'.pages) = CeilDiv(Len(source'), batchSize) + 1
          /\ lastBulk'.pages = ExpectedPages(Len(source'), batchSize)]_vars

\* C6 witness: scans of 3, 2 and 0 unchanging records have finished with
\* a partial last page, with only full pages, and with no page at all.
C6_Witness ==
    /\ lastBulk.run > 0 /\ lastBulk.stable
    /\ lastBulk.pages = <<2, 1, 0>> /\ Len(source) = 3

\* C7: when a handler's index write throws, the stream stays as it is, no
\* restart is armed, nothing is written or re-issued (the set of outstanding
\* writes only loses the failed one, no event goes back into a feed).
C7_FailureContained ==
    [][\A w \in inflight :
          FailWrite(w) =>
              /\ runs' = runs
              /\ timers' = timers
              /\ index' = index
              /\ inflight' = inflight \ {w}]_vars

\* C7 witness: a write of a listener failed, and that listener, still
\* streaming with no restart armed, has handled a later event since.
C7_Witness ==
    /\ lastFail.seq > 0
    /\ lastDispatch.run = lastFail.run
    /\ lastDispatch.change.seq > lastFail.seq
    /\ lastDispatch.call.kind # "none"
    /\ runs[lastFail.run].stream = "open"
    /\ timers = 0 /\ nerr = 0
    /\ \A w \in inflight : w.seq # lastFail.seq

\* C8: handling an insert, update or replace event whose fullDocument is
\* absent issues no index call and leaves the index unchanged.
C8_AbsentDropped ==
    [][\A r \in Runs :
          (/\ Dispatch(r)
           /\ lastDispatch'.change.operationType \in {"insert", "update", "replace"}
           /\ lastDispatch'.change.fullDocument = <<>>)
          => /\ lastDispatch'.call.kind = "none"
             /\ inflight' = inflight
             /\ index' = index]_vars

\* C8 witness: an update event was handled whose record had been deleted
\* before the lookup, while the index still held the record's document.
C8_Witness ==
    /\ lastDispatch.change.operationType = "update"
    /\ lastDispatch.change.fullDocument = <<>>
    /\ ToStr(lastDispatch.change.documentKey) \in DOMAIN index

\* C9: handling a delete event issues exactly one call, deleteDocument with
\* the string form of documentKey._id, whatever the transform would return.
C9_DeleteById ==
    [][\A r \in Runs :
          (Dispatch(r) /\ lastDispatch'.change.operationType = "delete")
          => LET docId == ToStr(lastDispatch'.change.documentKey)
                 w     == [run |-> r, seq |-> lastDispatch'.change.seq,
                           call |-> [kind |-> "deleteDocument", id |-> docId, docs |-> <<>>]]
             IN  /\ w \notin inflight
                 /\ inflight' = inflight \cup {w}
                 /\ lastDispatch'.call = w.call]_vars

\* C9 witness: a delete event was handled for a record that the configured
\* transform declines (record 2 has no Price).
C9_Witness ==
    /\ config = "declining"
    /\ lastDispatch.change.operationType = "delete"
    /\ lastDispatch.change.documentKey = 2
    /\ \E w \in inflight : w.call = lastDispatch.call /\ w.call.id = "2"

\* The ids of the records of a page that the transform declines.
Declined(cfg, docs) ==
    {ToStr(docs[k]._id) : k \in {j \in 1..Len(docs) : transform(cfg, docs[j]) = <<>>}}

\* C10: a record for which transform returns skip causes no index mutation:
\* the batch submitted for its page has no document for it and the batched
\* write leaves whatever the index holds under its id; a change event for it
\* issues no call and leaves the index unchanged.
C10_SkipNoMutation ==
    [][/\ \A r \in Runs :
            ReadPage(r) =>
                \A k \in 1..Len(runs'[r].documents) :
                    runs'[r].documents[k].id
                        \notin Declined(config, Page(source, runs[r].skip, batchSize))
       /\ \A r \in Runs :
            AddBatch(r) =>
                \A id \in (DOMAIN index \cup DOMAIN index') :
                    (\A k \in 1..Len(runs[r].documents) : runs[r].documents[k].id # id)
                    => (id \in DOMAIN index /\ id \in DOMAIN index' /\ index'[id] = index[id])
       /\ \A r \in Runs :
            (/\ Dispatch(r)
             /\ lastDispatch'.change.operationType \in {"insert", "update", "replace"}
             /\ lastDispatch'.change.fullDocument # <<>>
             /\ transform(config, lastDispatch'.change.fullDocument[1]) = <<>>)
            => /\ lastDispatch'.call.kind = "none"
               /\ inflight' = inflight
               /\ index' = index]_vars

\* C10 witness: a bulk pass dropped a declined record from its page, and a
\* replace event for a record that is now declined was handled while the
\* index holds the document stored for it earlier.
C10_Witness ==
    /\ config = "declining"
    /\ lastBulk.run > 0 /\ lastBulk.stable /\ lastBulk.pages = <<2, 0>> /\ lastBulk.total = 1
    /\ lastDispatch.change.operationType = "replace"
    /\ lastDispatch.change.fullDocument # <<>>
    /\ transform(config, lastDispatch.change.fullDocument[1]) = <<>>
    /\ lastDispatch.call.kind = "none"
    /\ ToStr(lastDispatch.change.documentKey) \in DOMAIN index

\* The records of a page the transform maps to a document.
Kept(cfg, docs) == {k \in 1..Len(docs) : transform(cfg, docs[k]) # <<>>}

\* C11: the bulk loader issues one batched write for a page exactly when the
\* page holds at least one record that is not declined, and the batch holds
\* the documents of those records; a non-empty page whose records are all
\* declined causes no write, leaves the index and the running total as they
\* are and moves the offset on by the page size with the scan continuing; a
\* batched write adds the size of its batch to the total; a scan of an empty
\* collection ends with a total of 0 and no write.
C11_WritePerKeptPage ==
    [][\A r \in Runs :
          LET docs == Page(source, runs[r].skip, batchSize)
          IN  /\ ReadPage(r) =>
                    /\ index' = index
                    /\ runs'[r].pc # "listening" => runs'[r].total = runs[r].total
                    /\ (runs'[r].pc = "write") <=> (Kept(config, docs) # {})
                    /\ runs'[r].pc = "write" =>
                          /\ Len(runs'[r].documents) = Cardinality(Kept(config, docs))
                          /\ \A k \in Kept(config, docs) :
                                \E j \in 1..Len(runs'[r].documents) :
                                    runs'[r].documents[j] = transform(config, docs[k])[1]
                          /\ runs'[r].skip = runs[r].skip
                    /\ (docs # <<>> /\ Kept(config, docs) = {}) =>
                          /\ runs'[r].pc = "read"
                          /\ runs'[r].skip = runs[r].skip + batchSize
                    /\ (docs = <<>> /\ runs[r].pages = <<>>) =>
                          /\ lastBulk'.run = r
                          /\ lastBulk'.pages = <<0>> /\ lastBulk'.total = 0
              /\ AddBatch(r) =>
                    /\ runs[r].documents # <<>>
                    /\ runs'[r].pc = "read" /\ runs'[r].documents = <<>>
                    /\ runs'[r].total = runs[r].total + Len(runs[r].documents)
                    /\ runs'[r].skip = runs[r].skip + batchSize
      ]_vars

\* A scan finished over a source whose only page held two declined records:
\* nothing was written and the next page was read at offset batchSize.
C11_Witness ==
    /\ config = "declining"
    /\ Len(source) = 2 /\ Kept(config, source) = {}
    /\ lastBulk.run = 1 /\ lastBulk.stable
    /\ lastBulk.pages = <<2, 0>> /\ lastBulk.total = 0
    /\ index = <<>>

\* C12: after the bulk pass the index converges on the projection of the
\* source without any stream failure. Stated on the settled state: when the
\* first run's listener is attached, the source changed only before that,
\* no stream error and no write failure ever happened, and no event, index
\* write, timer or run is pending (so nothing more will touch the index
\* unless the source changes again), the index equals the projection.
C12_ConvergesAfterBulk ==
    (/\ proc = "running"
     /\ Len(runs) = 1 /\ runs[1].pc = "listening"
     /\ runs[1].stream = "open" /\ runs[1].queue = <<>>
     /\ inflight = {} /\ timers = 0 /\ nerr = 0
     /\ lastFail = NoFail /\ lastDispatch = NoDispatch)
    => IndexDocs(index) = Projection(config, source)

\* Write w is handled sequentially: it is the write of the event its listener
\* handled last, no other write is outstanding for the same record, and the
\* listener, whose stream is open, has no further event queued for the record.
Sequential(w) ==
    /\ lastDispatch.run = w.run /\ lastDispatch.change.seq = w.seq
    /\ lastDispatch.call = w.call
    /\ runs[w.run].stream = "open"
    /\ \A v \in inflight \ {w} :
          v.call.id # ToStr(lastDispatch.change.documentKey)
    /\ \A k \in 1..Len(runs[w.run].queue) :
          runs[w.run].queue[k].documentKey # lastDispatch.change.documentKey

\* C13: when the events of one record reach its listener one at a time, each
\* write completing before the next event for the record arrives, then once
\* the write for an insert, replace or update has completed the index holds
\* the transform of the record as it now is in the source (the updated
\* values for an update), and once the write for a delete has completed the
\* index holds no document under the record's id.
C13_SequentialMirror ==
    [][\A w \in inflight :
          (Complete(w) /\ Sequential(w)) =>
              LET i     == lastDispatch.change.documentKey
                  docId == ToStr(i)
              IN  IF lastDispatch.change.operationType = "delete"
                  THEN /\ Lookup(source, i) = <<>>
                       /\ docId \notin DOMAIN index'
                  ELSE /\ Lookup(source, i) # <<>>
                       /\ docId \in DOMAIN index'
                       /\ transform(config, Lookup(source, i)[1]) = <<index'[docId]>>
      ]_vars

\* After a bulk pass that indexed at least one record the source changed
\* twice, last by the delete of record 1: the listener has handled the
\* events, every write has completed, none failed, and the index mirrors the
\* source again, without record 1.
C13_Witness ==
    /\ lastBulk.run = 1 /\ lastBulk.stable /\ lastBulk.total >= 1
    /\ nmut = 2 /\ nerr = 0 /\ lastFail = NoFail
    /\ lastDispatch.change.seq = 2
    /\ lastDispatch.change.operationType = "delete"
    /\ lastDispatch.change.documentKey = 1
    /\ runs[1].stream = "open" /\ runs[1].queue = <<>> /\ inflight = {}
    /\ "1" \notin DOMAIN index
    /\ IndexDocs(index) = Projection(config, source)

\* No call of syncCollection was made and nothing of a pipeline exists: no
\* run, timer or handler, and the index is as it was when the process began.
NothingStarted ==
    /\ runs = <<>> /\ timers = 0 /\ inflight = {}
    /\ index = <<>>
    /\ lastBulk = NoBulk /\ lastDispatch = NoDispatch /\ lastFail = NoFail

\* C14: a failure of the source connection or of the index health check at
\* startup ends the process with exit code 1 without any pipeline having
\* started: until startup has succeeded nothing of a pipeline exists, the
\* failing step creates no index, reads no page, writes nothing and attaches
\* no listener, and the exited process takes no further step.
C14_StartupFailureFatal ==
    [][/\ proc \in {"connect", "health"} => NothingStarted
       /\ StartupFail =>
             /\ proc' = "exit1"
             /\ NothingStarted'
             /\ indexExists' = indexExists /\ source' = source
       /\ proc # "exit1"
      ]_vars

\* The process has exited with code 1 from startup: no stream error ever
\* happened (so no restarted run threw), and nothing of a pipeline exists.
C14_Witness ==
    /\ proc = "exit1" /\ nerr = 0 /\ nmut = 0
    /\ NothingStarted

\* C15: an interrupt leads to the source connection being closed and the
\* process exiting with code 0, whatever the pipelines are doing. Stated on
\* the steps: once the interrupt handler has started closing the connection,
\* the process stays closing until it exits with code 0 (it exits with no
\* other code), and no call of syncCollection starts in the meantime.
C15_InterruptExitsZero ==
    [][proc = "closing" =>
          /\ proc' \in {"closing", "exit0"}
          /\ Len(runs') <= Len(runs)
      ]_vars

\* The index after a whole bulk pass over src, read from offset skip on:
\* one batched write per page, page after page up to the empty page.
RECURSIVE BulkPass(_, _, _, _)
BulkPass(cfg, src, idx, skip) ==
    LET docs == Page(src, skip, batchSize)
    IN  IF docs = <<>> THEN idx
        ELSE BulkPass(cfg, src, addDocuments(idx, Documents(cfg, docs)), skip + batchSize)

Scanning(rs, r) == r \in DOMAIN rs /\ rs[r].pc \in {"read", "write"}

\* C17: the bulk pass terminates, and its offset starts at 0, grows by
\* exactly batchSize after every non-empty page and never shrinks, the pass
\* stopping at the first empty page without a further read: a run in its
\* loop has read only non-empty pages and its offset is batchSize times the
\* number of pages it has dealt with; the loop is entered at offset 0; a
\* step inside the loop leaves the offset or adds batchSize to it; reading
\* an empty page ends the loop at once; and a run in its loop eventually
\* leaves it (the source of the model grows by at most MaxMutations records).
C17_ScanTerminates ==
    /\ [](\A r \in Runs :
            Scanning(runs, r) =>
                /\ \A k \in 1..Len(runs[r].pages) : runs[r].pages[k] > 0
                /\ runs[r].skip = batchSize *
                      (IF runs[r].pc = "read" THEN Len(runs[r].pages)
                                              ELSE Len(runs[r].pages) - 1))
    /\ [][\A r \in Runs :
            /\ (~Scanning(runs, r) /\ Scanning(runs', r)) =>
                  (runs'[r].pc = "read" /\ runs'[r].skip = 0 /\ runs'[r].pages = <<>>)
            /\ (Scanning(runs, r) /\ Scanning(runs', r)) =>
                  runs'[r].skip \in {runs[r].skip, runs[r].skip + batchSize}
            /\ (ReadPage(r) /\ Page(source, runs[r].skip, batchSize) = <<>>) =>
                  (runs'[r].pc = "listening" /\ lastBulk'.pages[Len(lastBulk'.pages)] = 0)
            /\ (ReadPage(r) /\ Page(source, runs[r].skip, batchSize) # <<>>) =>
                  Scanning(runs', r)
         ]_vars
    /\ \A r \in 1..(MaxErrors + 1) : Scanning(runs, r) ~> ~Scanning(runs, r)

\* A restarted run is in its loop past the last record: it has read the
\* pages of a three-record source and is about to read the empty page.
C17_Witness ==
    \E r \in Runs :
        /\ r > 1 /\ runs[r].pc = "read"
        /\ runs[r].pages = <<2, 1>> /\ runs[r].skip = 2 * batchSize
        /\ Len(source) = 3

\* C18: each run goes through its phases in a fixed order. A new call starts
\* at the probe; index creation follows only the probe, the settings update
\* only the probe or the creation, and the first page read only the settings
\* update, by when the index exists; until its bulk loop has read an empty
\* page the run has no listener and no change event queued; the listener is
\* attached in the very step that reads the empty page; and a change event
\* is handled, or a handler's write is pending, only for a run whose bulk
\* pass has finished.
C18_PhasesInOrder ==
    /\ [](\A r \in Runs :
            /\ runs[r].pc \in {"probe", "create", "settings"} =>
                  (runs[r].pages = <<>> /\ runs[r].documents = <<>>)
            /\ runs[r].pc \in {"settings", "read", "write", "listening"} => indexExists
            /\ runs[r].pc # "listening" =>
                  (runs[r].stream = "none" /\ runs[r].queue = <<>>))
    /\ [](\A w \in inflight : w.run \in Runs /\ runs[w.run].pc = "listening")
    /\ [][\A r \in DOMAIN runs' :
            IF r \notin Runs THEN runs'[r].pc = "probe"
            ELSE /\ runs'[r].pc # runs[r].pc =>
                       CASE runs'[r].pc = "create"    -> runs[r].pc = "probe"
                         [] runs'[r].pc = "settings"  -> runs[r].pc \in {"probe", "create"}
                         [] runs'[r].pc = "read"      -> runs[r].pc \in {"settings", "write"}
                         [] runs'[r].pc = "write"     -> runs[r].pc = "read"
                         [] runs'[r].pc = "listening" ->
                               /\ runs[r].pc = "read"
                               /\ Page(source, runs[r].skip, batchSize) = <<>>
                               /\ ReadPage(r)
                         [] runs'[r].pc = "failed"    ->
                               runs[r].pc \in {"create", "settings", "read", "write"}
                         [] OTHER -> FALSE
                 /\ (runs[r].stream = "none" /\ runs'[r].stream # "none") =>
                       (runs'[r].stream = "open" /\ runs'[r].pc = "listening"
                        /\ runs[r].pc = "read")
                 /\ Dispatch(r) => (runs[r].pc = "listening" /\ lastBulk.run > 0)
         ]_vars

\* A restarted run went through its phases and its own listener has handled
\* a change event after its bulk pass finished.
C18_Witness ==
    /\ Len(runs) = 2 /\ runs[2].pc = "listening" /\ runs[2].stream = "open"
    /\ lastBulk.run = 2
    /\ lastDispatch.run = 2 /\ lastDispatch.call.kind # "none"

\* Every call of syncCollection has ended, at least one by a throw, and no
\* listener, timer or handler's write is left.
AllEndedSomeFailed ==
    /\ \E r \in Runs : runs[r].pc = "failed"
    /\ \A r \in Runs : runs[r].pc \in {"failed", "listening"} /\ runs[r].stream # "open"
    /\ timers = 0 /\ inflight = {}

\* C20: a throw of createIndex, updateSettings, a page read or a batched
\* write ends the run there: the run is left failed with no listener, the
\* step arms no timer, starts no call and writes nothing (or, for a call
\* started by a timer, may end the whole process); a failed run stays as it
\* is; only the 'error' event of an open stream arms a restart timer and
\* only a timer starts a call after startup; and with every run ended and
\* nothing left pending the index is never written again, whatever happens
\* to the source.
C20_BulkFailureEndsRun ==
    [][/\ \A r \in Runs :
            /\ RunFail(r) =>
                  /\ runs'[r].pc = "failed" /\ runs'[r].stream = "none"
                  /\ runs'[r].queue = <<>>
                  /\ timers' = timers /\ Len(runs') = Len(runs)
                  /\ index' = index /\ inflight' = inflight
            /\ Crash(r) => (proc' = "exit1" /\ runs' = <<>> /\ timers' = 0)
            /\ (runs[r].pc = "failed" /\ r \in DOMAIN runs') => runs'[r] = runs[r]
       /\ timers' > timers =>
             (timers' = timers + 1 /\ \E r \in LiveListeners : StreamError(r))
       /\ (runs # <<>> /\ Len(runs') > Len(runs)) => TimerFire
       /\ AllEndedSomeFailed =>
             (index' = index /\ timers' = 0 /\ Len(runs') <= Len(runs))
      ]_vars

\* The only call threw during setup or its bulk pass; the source has changed
\* since, and the index does not mirror it: no listener, no timer.
C20_Witness ==
    /\ proc = "running"
    /\ Len(runs) = 1 /\ runs[1].pc = "failed"
    /\ AllEndedSomeFailed
    /\ nmut = MaxMutations
    /\ IndexDocs(index) # Projection(config, source)

\* A step of the first collection's pipeline: one of its calls settles
\* (by resolving or by throwing), its stream emits 'error', its restart
\* timer fires, or a write of one of its handlers fails.
FirstPipelineStep ==
    \/ \E r \in Runs : Settle(r) \/ StreamError(r)
    \/ TimerFire
    \/ \E w \in inflight : FailWrite(w)

\* The same for the second collection's pipeline.
SecondPipelineStep ==
    \/ PeerProbe \/ PeerCreateIndex \/ PeerUpdateSettings \/ PeerReadPage
    \/ PeerAddBatch \/ PeerRunFail \/ PeerCrash \/ PeerStreamError \/ PeerTimerFire

\* C19: the pipelines of different collections are independent: a step of
\* one collection's pipeline, be it a stream error, a failure of its bulk
\* pass or a restart, leaves the other collection's pipeline (its position,
\* offset and total, its listener, its pending restart) and the other index
\* as they are.
C19_PipelinesIndependent ==
    [][/\ FirstPipelineStep => peer' = peer
       /\ SecondPipelineStep =>
             (runs' = runs /\ timers' = timers /\ inflight' = inflight
              /\ index' = index /\ indexExists' = indexExists)
      ]_vars

====
